---- MODULE Spec2Model ----
(***************************************************************************)
(* Debate orchestration of the medical diagnosis systems.                  *)
(*                                                                         *)
(*   MultiAIDiagnosisSystem   (src/multi_ai_medical_diagnosis.py):         *)
(*     create_circular_groups, the dual referee schedule and the round     *)
(*     loop of _conduct_debate.                                            *)
(*   MedicalDiagnosisSystem   (src/medical_diagnosis_system.py):           *)
(*     _form_circular_groups, the stagnation detector _check_stagnation    *)
(*     with _handle_stagnation, and the loop of _conduct_debate.           *)
(*                                                                         *)
(* The specifications share the variables:                                 *)
(*   SpecGroups  create_circular_groups applied to every doctor list       *)
(*   Spec        one session of _conduct_debate                            *)
(*   SpecLong    long sessions of _conduct_debate without failed calls     *)
(*   SpecStag    repeated calls of _check_stagnation on one system         *)
(*   SpecForm    _form_circular_groups applied to every specialist list    *)
(*   SpecSession one session of MedicalDiagnosisSystem._conduct_debate     *)
(*   SpecSessionFair  SpecSession with weak fairness of its step           *)
(*   SpecParse   the consensus parser applied to every short response      *)
(* Python indices are kept 0-based; a Python list l is the sequence with   *)
(* l[i] at position i+1.                                                   *)
(***************************************************************************)
EXTENDS Integers, Sequences, FiniteSets, TLC

VARIABLES
    pc,                         \* position of the modelled control flow
    doctors,                    \* self.doctors: the ai_provider of each Doctor
    groups,                     \* the list create_circular_groups returns
    max_rounds,                 \* _conduct_debate's max_rounds argument
    round_num,                  \* the loop variable round_num (= self.current_round)
    referees,                   \* self.referees
    referee_reset_this_round,   \* the dict of that name, keyed by referee name
    group_idx,                  \* position of the loop over groups (1-based idx)
    opinion1,                   \* doc1's response inside the group loop
    group_opinions,             \* the list of that name
    previous_rounds,            \* the session log of round records
    exit_message,               \* which break of the loop was taken
    result,                     \* the dict _conduct_debate returns
    clients_created,            \* number of AI client instances constructed
    round_start,                \* referees as they were when the round began
    gathered,                   \* the doctors' responses of the current round
    last_call,                  \* the latest Doctor.think / Referee.evaluate call
    n_calls,                    \* number of agent calls issued so far
    unusual,                    \* number of failed or free-form responses so far
    fault_budget,               \* how many such responses the session may meet
    active_opinions,            \* MedicalDiagnosisSystem.active_opinions (diagnoses)
    last_opinions,              \* MedicalDiagnosisSystem.last_opinions
    stagnation_count,           \* MedicalDiagnosisSystem.stagnation_count
    is_stagnant,                \* value returned by the latest _check_stagnation
    n_checks,                   \* number of _check_stagnation calls so far
    n_changes,                  \* number of reassignments of active_opinions
    selected_specialists,       \* MedicalDiagnosisSystem.selected_specialists
    specialist_groups,          \* MedicalDiagnosisSystem.specialist_groups
    self_current_round,         \* MedicalDiagnosisSystem.current_round
    opinions,                   \* the list opinions of _run_debate_cycle
    n_cycles,                   \* number of _run_debate_cycle calls so far
    handled,                    \* the latest run of _handle_stagnation
    failed_call,                \* the _call_claude call that raised, if any
    rounds_alike,               \* every cycle so far gathered the labels a and b
    referee_check,              \* a referee response given to the consensus parser
    parsed                      \* the consensus_reached the parser computed from it

vars == <<pc, doctors, groups, max_rounds, round_num, referees,
          referee_reset_this_round, group_idx, opinion1, group_opinions,
          previous_rounds, exit_message, result, clients_created, round_start,
          gathered, last_call, n_calls, unusual, fault_budget,
          active_opinions, last_opinions,
          stagnation_count, is_stagnant, n_checks, n_changes,
          selected_specialists, specialist_groups, self_current_round,
          opinions,
          n_cycles, handled, failed_call, rounds_alike, referee_check, parsed>>

parse_vars == <<referee_check, parsed>>

debate_vars == <<max_rounds, round_num, referees, referee_reset_this_round,
                 group_idx, opinion1, group_opinions, previous_rounds,
                 exit_message, result, clients_created, round_start, gathered,
                 last_call, n_calls, unusual, fault_budget>>

system_vars == <<selected_specialists, specialist_groups, self_current_round,
                 opinions, n_cycles, handled, failed_call, rounds_alike>>

stag_vars == <<active_opinions, last_opinions, stagnation_count, is_stagnant,
               n_checks, n_changes, system_vars>>

(***************************************************************************)
(* Bounds of the model                                                     *)
(***************************************************************************)
MaxDoctors == 4          \* longest doctor list given to create_circular_groups
MaxDebateDoctors == 3    \* longest doctor list of a debate session
MaxRounds == 7           \* largest max_rounds of a debate session
MaxLongRounds == 15      \* largest max_rounds of a session of SpecLong
MaxUnusual == 1          \* failed / free-form responses per session
MaxChecks == 12          \* _check_stagnation calls per system
MaxOpinions == 2         \* longest active_opinions list
MaxChanges == 1          \* reassignments of active_opinions per system
MaxSpecialists == 4      \* longest list given to _form_circular_groups
MaxSessionSpecialists == 2   \* longest specialist list of a session
MaxPresetOpinions == 3   \* longest active_opinions list assigned before a session
MaxResponseLen == 4      \* most pieces of a response given to the parser

Min(S) == CHOOSE x \in S : \A y \in S : x <= y

SeqsUpTo(S, lo, hi) == UNION {[1..n -> S] : n \in lo..hi}

NoValue == "None"

(***************************************************************************)
(* AIProvider and create_circular_groups                                   *)
(***************************************************************************)
AIProvider == {"claude", "gpt", "gemini", "grok"}

\* n < 2 raises ValueError
insufficient_doctors_off_by_one(n) == n < 1

insufficient_doctors(n) == n < 2

\* doc2 is always the next doctor, whatever its provider
doc2_index_next(docs, i) == (i + 1) % Len(docs)

\* doc2_idx for doc1 = doctors[i]: the nearest following doctor with another
\* provider, else the next doctor
doc2_index(docs, i) ==
    LET n == Len(docs)
        offsets == {j \in 1..(n - 1) : docs[((i + j) % n) + 1] # docs[i + 1]}
    IN  IF offsets # {} THEN (i + Min(offsets)) % n ELSE (i + 1) % n

\* tuple(sorted([i, doc2_idx]))
sorted_pair(a, b) == IF a <= b THEN <<a, b>> ELSE <<b, a>>

RECURSIVE circular_groups_from(_, _, _, _)
circular_groups_from(docs, i, grps, used_pairs) ==
    IF i >= Len(docs) THEN grps
    ELSE LET d2 == doc2_index(docs, i)
             pair == sorted_pair(i, d2)
         IN  IF pair \notin used_pairs
             THEN circular_groups_from(docs, i + 1, Append(grps, <<i, d2>>),
                                       used_pairs \cup {pair})
             ELSE circular_groups_from(docs, i + 1, grps, used_pairs)

RECURSIVE circular_groups_no_dedup(_, _, _, _)
circular_groups_no_dedup(docs, i, grps, used_pairs) ==
    IF i >= Len(docs) THEN grps
    ELSE circular_groups_no_dedup(docs, i + 1,
                                  Append(grps, <<i, doc2_index(docs, i)>>),
                                  used_pairs)

create_circular_groups_no_dedup(docs) == circular_groups_no_dedup(docs, 0, <<>>, {})

\* the groups as pairs of doctor indices (doc1, doc2)
create_circular_groups(docs) == circular_groups_from(docs, 0, <<>>, {})

GroupMembers(grps) == UNION {{grps[k][1], grps[k][2]} : k \in 1..Len(grps)}

(***************************************************************************)
(* Idle values of the parts a specification does not use                   *)
(***************************************************************************)
NoCall == [kind |-> NoValue]

ParseIdle ==
    /\ referee_check = <<>>
    /\ parsed = FALSE

DebateIdle ==
    /\ max_rounds = 0
    /\ round_num = 0
    /\ referees = <<>>
    /\ referee_reset_this_round = <<>>
    /\ group_idx = 0
    /\ opinion1 = NoValue
    /\ group_opinions = <<>>
    /\ previous_rounds = <<>>
    /\ exit_message = NoValue
    /\ result = NoValue
    /\ clients_created = 0
    /\ round_start = <<>>
    /\ gathered = [round |-> 0, opinions |-> <<>>]
    /\ last_call = NoCall
    /\ n_calls = 0
    /\ unusual = 0
    /\ fault_budget = 0
    /\ ParseIdle

NotHandled == [kind |-> NoValue]

SystemIdle ==
    /\ selected_specialists = <<>>
    /\ specialist_groups = <<>>
    /\ self_current_round = 0
    /\ opinions = <<>>
    /\ n_cycles = 0
    /\ handled = NotHandled
    /\ failed_call = NoValue
    /\ rounds_alike = TRUE

StagIdle ==
    /\ active_opinions = <<>>
    /\ last_opinions = <<>>
    /\ stagnation_count = 0
    /\ is_stagnant = FALSE
    /\ n_checks = 0
    /\ n_changes = 0
    /\ SystemIdle

(***************************************************************************)
(* SpecGroups: create_circular_groups on every list of up to MaxDoctors    *)
(***************************************************************************)
InitGroups ==
    /\ pc = "groups"
    /\ doctors \in SeqsUpTo(AIProvider, 0, MaxDoctors)
    /\ groups = <<>>
    /\ DebateIdle
    /\ StagIdle

CreateCircularGroups ==
    /\ pc = "groups"
    /\ IF insufficient_doctors(Len(doctors))
       THEN /\ pc' = "ValueError"
            /\ groups' = groups
       ELSE /\ pc' = "groups_done"
            /\ groups' = create_circular_groups(doctors)
    /\ UNCHANGED <<doctors, debate_vars, stag_vars, parse_vars>>

NextGroups == CreateCircularGroups

SpecGroups == InitGroups /\ [][NextGroups]_vars

\* C4: for N >= 2 doctors with any providers, the returned groups hold no
\* unordered pair of doctors twice and every doctor is in at least one group.
C4_NoDuplicatePairAllCovered ==
    (pc = "groups_done" /\ Len(doctors) >= 2) =>
        /\ \A k1, k2 \in 1..Len(groups) :
              k1 # k2 => sorted_pair(groups[k1][1], groups[k1][2])
                         # sorted_pair(groups[k2][1], groups[k2][2])
        /\ \A i \in 0..(Len(doctors) - 1) : i \in GroupMembers(groups)

\* a list of four doctors in which both the different-provider choice and
\* the duplicate skip happen
C4_Witness ==
    /\ pc = "groups_done"
    /\ Len(doctors) = 4
    /\ Len(groups) < Len(doctors)
    /\ \E i \in 0..3 : doc2_index(doctors, i) # (i + 1) % 4

\* C5: with fewer than 2 doctors create_circular_groups raises and returns
\* no group.
C5_TooFewDoctorsRaises ==
    (pc # "groups" /\ Len(doctors) < 2) => (pc = "ValueError" /\ groups = <<>>)

C5_Witness == pc = "ValueError" /\ Len(doctors) = 1

(***************************************************************************)
(* MedicalDiagnosisSystem: the stagnation detector                         *)
(*                                                                         *)
(* A diagnosis label is a Python string, modelled as the sequence of its   *)
(* characters, so that sorted() and "|".join() are computed as Python      *)
(* computes them.                                                          *)
(***************************************************************************)
stagnation_threshold == 10

\* ord() of the characters used in the labels
CharCode(c) == CASE c = "a" -> 97 [] c = "b" -> 98 [] c = "t" -> 116
                 [] c = "|" -> 124

\* Python's str < str
RECURSIVE str_lt(_, _)
str_lt(s, t) ==
    IF t = <<>> THEN FALSE
    ELSE IF s = <<>> THEN TRUE
    ELSE IF CharCode(Head(s)) # CharCode(Head(t))
         THEN CharCode(Head(s)) < CharCode(Head(t))
         ELSE str_lt(Tail(s), Tail(t))

\* insertion of one string into a sorted list, after its equals (stable)
RECURSIVE insert_sorted(_, _)
insert_sorted(x, l) ==
    IF l = <<>> THEN <<x>>
    ELSE IF str_lt(x, Head(l)) THEN <<x>> \o l
    ELSE <<Head(l)>> \o insert_sorted(x, Tail(l))

\* sorted(list of str)
RECURSIVE sorted(_)
sorted(l) ==
    IF l = <<>> THEN <<>>
    ELSE insert_sorted(l[Len(l)], sorted(SubSeq(l, 1, Len(l) - 1)))

\* "|".join(list of str)
RECURSIVE join_bar(_)
join_bar(l) ==
    IF l = <<>> THEN <<>>
    ELSE IF Len(l) = 1 THEN l[1]
    ELSE l[1] \o <<"|">> \o join_bar(Tail(l))

\* current_opinions_str
opinions_signature(ops) == join_bar(sorted(ops))

\* the return statement compared with > instead of >=
check_stagnation_late(ops, last, count) ==
    IF Len(ops) = 0
    THEN [last_opinions |-> last, stagnation_count |-> count, ret |-> FALSE]
    ELSE LET cur == opinions_signature(ops) IN
         IF last = <<>>
         THEN [last_opinions |-> <<cur>>, stagnation_count |-> count, ret |-> FALSE]
         ELSE LET c == IF cur = last[Len(last)] THEN count + 1 ELSE 0
                  l == IF cur = last[Len(last)] THEN last ELSE Append(last, cur)
              IN  [last_opinions |-> l, stagnation_count |-> c,
                   ret |-> (c > stagnation_threshold)]

\* _check_stagnation on a system with the given fields: the fields after the
\* call and the value returned
check_stagnation(ops, last, count) ==
    IF Len(ops) = 0
    THEN [last_opinions |-> last, stagnation_count |-> count, ret |-> FALSE]
    ELSE LET cur == opinions_signature(ops) IN
         IF last = <<>>
         THEN [last_opinions |-> <<cur>>, stagnation_count |-> count, ret |-> FALSE]
         ELSE LET c == IF cur = last[Len(last)] THEN count + 1 ELSE 0
                  l == IF cur = last[Len(last)] THEN last ELSE Append(last, cur)
              IN  [last_opinions |-> l, stagnation_count |-> c,
                   ret |-> (c >= stagnation_threshold)]

(***************************************************************************)
(* SpecStag: a freshly constructed MedicalDiagnosisSystem whose            *)
(* active_opinions are assigned and whose _check_stagnation is called      *)
(* repeatedly                                                              *)
(***************************************************************************)
Diagnoses == {<<"a">>, <<"b">>, <<"a", "|", "b">>}

OpinionLists == SeqsUpTo(Diagnoses, 0, MaxOpinions)

InitStag ==
    /\ pc = "stagnation"
    /\ doctors = <<>>
    /\ groups = <<>>
    /\ DebateIdle
    /\ active_opinions \in OpinionLists
    /\ last_opinions = <<>>
    /\ stagnation_count = 0
    /\ is_stagnant = FALSE
    /\ n_checks = 0
    /\ n_changes = 0
    /\ SystemIdle

CheckStagnation ==
    /\ pc = "stagnation"
    /\ n_checks < MaxChecks
    /\ LET r == check_stagnation(active_opinions, last_opinions, stagnation_count)
       IN  /\ last_opinions' = r.last_opinions
           /\ stagnation_count' = r.stagnation_count
           /\ is_stagnant' = r.ret
    /\ n_checks' = n_checks + 1
    /\ UNCHANGED <<pc, doctors, groups, debate_vars, parse_vars, active_opinions, n_changes,
                   system_vars>>

\* system.active_opinions = [...]
SetActiveOpinions ==
    /\ pc = "stagnation"
    /\ n_changes < MaxChanges
    /\ \E ops \in OpinionLists :
          /\ ops # active_opinions
          /\ active_opinions' = ops
    /\ n_changes' = n_changes + 1
    /\ UNCHANGED <<pc, doctors, groups, debate_vars, parse_vars, last_opinions,
                   stagnation_count, is_stagnant, n_checks, system_vars>>

NextStag == CheckStagnation \/ SetActiveOpinions

SpecStag == InitStag /\ [][NextStag]_vars

\* the system has seen one fixed non-empty opinion list on every call
SameOpinionsSoFar == n_changes = 0 /\ active_opinions # <<>>

C10_TenCallsStagnant ==
    (SameOpinionsSoFar /\ n_checks = stagnation_threshold) =>
        (is_stagnant /\ stagnation_count = stagnation_threshold)

(***************************************************************************)
(* MultiAIDiagnosisSystem: referees                                        *)
(***************************************************************************)
available_providers == <<"claude", "gpt">>

\* create_dual_referees; the clients are numbered in order of construction,
\* first_client being the number of the first one constructed here
create_dual_referees(first_client) ==
    LET provider_a == available_providers[1]
        provider_b == IF Len(available_providers) < 2
                      THEN available_providers[1] ELSE available_providers[2]
    IN  << [name |-> "Referee A", ai_provider |-> provider_a,
            ai_client |-> first_client, initialization_round |-> 0,
            memory |-> <<>>],
           [name |-> "Referee B", ai_provider |-> provider_b,
            ai_client |-> first_client + 1, initialization_round |-> 2,
            memory |-> <<>>] >>

\* every referee on the 5n schedule, whatever its initialization_round
should_reset_referee_hardcoded(referee, current_round) ==
    IF current_round = 0 THEN FALSE ELSE current_round % 5 = 0

\* a reset every tenth round of the referee's schedule
should_reset_referee_tenth(referee, current_round) ==
    IF current_round = 0 THEN FALSE
    ELSE (current_round - referee.initialization_round) % 10 = 0

should_reset_referee(referee, current_round) ==
    IF current_round = 0 THEN FALSE
    ELSE IF referee.initialization_round = 0
         THEN current_round % 5 = 0
         ELSE (current_round - referee.initialization_round) % 5 = 0

\* the memory survives the reset
reset_referee_keeps_memory(referee, new_client) ==
    [referee EXCEPT !.ai_client = new_client]

\* the client survives the reset
reset_referee_keeps_client(referee, new_client) ==
    [referee EXCEPT !.memory = <<>>]

\* reset_referee; new_client is the client _create_ai_client constructs
\* the latest memory entry survives the reset
reset_referee_keeps_latest(referee, new_client) ==
    [referee EXCEPT !.ai_client = new_client,
                    !.memory = IF @ = <<>> THEN <<>> ELSE <<@[Len(@)]>>]

reset_referee(referee, new_client) ==
    [referee EXCEPT !.ai_client = new_client, !.memory = <<>>]

\* the other referee of the pair
active_referee_index_swapped(refs, current_round) ==
    (current_round + 1) % Len(refs)

\* get_active_referee: the (0-based) index into self.referees
active_referee_index(refs, current_round) == current_round % Len(refs)

get_active_referee(refs, current_round) ==
    refs[active_referee_index(refs, current_round) + 1]

\* the loop "for referee in self.referees" at the start of a round, from
\* position k on: the referees, the dict referee_reset_this_round and the
\* number of clients constructed, after the loop
RECURSIVE reset_loop(_, _, _, _, _)
reset_loop(refs, k, current_round, flags, created) ==
    IF k > Len(refs) THEN [referees |-> refs, flags |-> flags, created |-> created]
    ELSE IF should_reset_referee(refs[k], current_round)
         THEN reset_loop([refs EXCEPT ![k] = reset_referee(refs[k], created + 1)],
                         k + 1, current_round,
                         (refs[k].name :> TRUE) @@ flags, created + 1)
         ELSE reset_loop(refs, k + 1, current_round,
                         (refs[k].name :> FALSE) @@ flags, created)

(***************************************************************************)
(* Responses of the agents.  A referee response is the sequence of its     *)
(* relevant pieces:                                                        *)
(*   "FENCE" .. "END_FENCE"  a ```json block                               *)
(*   "JSON_TRUE"/"JSON_FALSE"   {"consensus_reached": true/false}          *)
(*   "LOOSE_TRUE"/"LOOSE_FALSE" {consensus_reached: TRUE/FALSE}, which the *)
(*                              regular expression matches and json.loads  *)
(*                              rejects                                    *)
(*   "KEYCASE_TRUE"             {"Consensus_Reached": true}, which the     *)
(*                              regular expression matches and json.loads  *)
(*                              accepts                                    *)
(*   "not reached", "consensus reached"         phrases of the fallback    *)
(*   "text", "[AI Error]"    other text, the text of a failed call         *)
(***************************************************************************)
ErrorText == "[AI Error]"

ConsensusObjects ==
    {"JSON_TRUE", "JSON_FALSE", "LOOSE_TRUE", "LOOSE_FALSE", "KEYCASE_TRUE"}

\* the value read from the matched object: data.get("consensus_reached",
\* False) of the parsed dict, which finds no key of another case, or the
\* first true/false of the text json.loads rejected
ObjectValue(tok) == tok \in {"JSON_TRUE", "LOOSE_TRUE"}

Positions(resp, toks) == {i \in 1..Len(resp) : resp[i] \in toks}

\* the pieces that start a line with three backquotes: the pattern's closing
\* part matches at the first of them after the opening, an opening included
FenceMarks == {"FENCE", "END_FENCE"}

\* a code block is matched
code_block_match(resp) ==
    \E i \in Positions(resp, {"FENCE"}) : \E j \in Positions(resp, FenceMarks) : j > i

\* code_block_match.group(1), or the whole response without a code block
json_text(resp) ==
    IF ~code_block_match(resp) THEN resp
    ELSE LET i == Min({o \in Positions(resp, {"FENCE"}) :
                          \E j \in Positions(resp, FenceMarks) : j > o})
             j == Min({c \in Positions(resp, FenceMarks) : c > i})
         IN  SubSeq(resp, i + 1, j - 1)

\* the fallback on phrases, negatives first
phrase_consensus(resp) ==
    IF Positions(resp, {"not reached"}) # {} THEN FALSE
    ELSE Positions(resp, {"consensus reached"}) # {}

\* the last consensus object of the searched text decides
parse_consensus_last_match(resp) ==
    LET txt == json_text(resp)
        hits == Positions(txt, ConsensusObjects)
    IN  IF hits # {} THEN ObjectValue(txt[CHOOSE h \in hits : \A g \in hits : g <= h])
        ELSE phrase_consensus(resp)

\* consensus_reached as computed from referee_check
parse_consensus(resp) ==
    LET txt == json_text(resp)
        hits == Positions(txt, ConsensusObjects)
    IN  IF hits # {} THEN ObjectValue(txt[Min(hits)])
        ELSE phrase_consensus(resp)

\* an opinion of more than 800 characters
LongOpinion == "long_diagnosis"

DoctorResponses == {"diagnosis", LongOpinion, ErrorText}

UsualRefereeResponses == {<<"text", "JSON_TRUE">>, <<"text", "JSON_FALSE">>}

RefereeResponses ==
    UsualRefereeResponses \cup
    { <<ErrorText>>,
      <<"FENCE", "JSON_TRUE", "END_FENCE">>,
      <<"LOOSE_TRUE">>,
      <<"consensus reached">>,
      <<"FENCE", "text", "END_FENCE", "JSON_TRUE">> }

\* responses counted against MaxUnusual
UnusualDoctorResponse(resp) == resp # "diagnosis"

UnusualRefereeResponse(resp) == resp \notin UsualRefereeResponses

(***************************************************************************)
(* Spec: one session of MultiAIDiagnosisSystem._conduct_debate, entered    *)
(* from diagnose after create_doctor_pool, create_dual_referees and        *)
(* create_circular_groups.  Doctor i uses client i+1, the referees the     *)
(* two clients constructed after the doctors'.                             *)
(***************************************************************************)
\* create_doctor_pool gives the first doctor the first available provider
DebateDoctorLists ==
    {d \in SeqsUpTo({available_providers[k] : k \in 1..Len(available_providers)},
                    2, MaxDebateDoctors) : d[1] = available_providers[1]}

NoOpinions == [round |-> 0, opinions |-> <<>>]

InitDebate(doctor_lists, round_limits, budget) ==
    /\ pc = "loop"
    /\ doctors \in doctor_lists
    /\ groups = create_circular_groups(doctors)
    /\ max_rounds \in round_limits
    /\ round_num = 0
    /\ referees = create_dual_referees(Len(doctors) + 1)
    /\ clients_created = Len(doctors) + 2
    /\ referee_reset_this_round = <<>>
    /\ group_idx = 0
    /\ opinion1 = NoValue
    /\ group_opinions = <<>>
    /\ previous_rounds = <<>>
    /\ exit_message = NoValue
    /\ result = NoValue
    /\ round_start = <<>>
    /\ gathered = NoOpinions
    /\ last_call = NoCall
    /\ n_calls = 0
    /\ unusual = 0
    /\ fault_budget = budget
    /\ ParseIdle
    /\ StagIdle

Init == InitDebate(DebateDoctorLists, 0..MaxRounds, MaxUnusual)

\* range(1, max_rounds + 1) is empty: the loop body never runs and building
\* the result reads the unbound locals group_opinions and round_num
LoopEmpty ==
    /\ pc = "loop"
    /\ round_num = 0
    /\ max_rounds < 1
    /\ pc' = "UnboundLocalError"
    /\ UNCHANGED <<doctors, groups, debate_vars, stag_vars, parse_vars>>

\* group_opinions is not emptied when a round begins
opinions_at_round_start_kept(ops) == ops

\* group_opinions = [] of the round
opinions_at_round_start(ops) == <<>>

\* the head of a round up to STAGE 1: the referee resets
RoundStart ==
    /\ pc = "loop"
    /\ round_num < max_rounds
    /\ LET r == round_num + 1
           after == reset_loop(referees, 1, r, <<>>, clients_created)
       IN  /\ round_num' = r
           /\ round_start' = referees
           /\ referees' = after.referees
           /\ referee_reset_this_round' = after.flags
           /\ clients_created' = after.created
           /\ gathered' = [round |-> r, opinions |-> <<>>]
    /\ group_opinions' = opinions_at_round_start(group_opinions)
    /\ group_idx' = 1
    /\ opinion1' = NoValue
    /\ pc' = "opinion1"
    /\ UNCHANGED <<doctors, groups, max_rounds, previous_rounds, exit_message,
                   result, last_call, n_calls, unusual, fault_budget, stag_vars, parse_vars>>

\* the tag and text of previous_feedback_for_doctors: the round of the record
\* the doctors are shown, 0 when there is none
previous_feedback_round == 
    IF previous_rounds = <<>> THEN 0
    ELSE previous_rounds[Len(previous_rounds)].round

\* doc1.think of the current group
Doctor1Think ==
    /\ pc = "opinion1"
    /\ \E resp \in DoctorResponses :
          /\ UnusualDoctorResponse(resp) => unusual < fault_budget
          /\ unusual' = IF UnusualDoctorResponse(resp) THEN unusual + 1 ELSE unusual
          /\ opinion1' = resp
          /\ gathered' = [gathered EXCEPT !.opinions =
                             Append(@, <<groups[group_idx][1], resp>>)]
    /\ last_call' = [kind |-> "doctor", round |-> round_num,
                     who |-> groups[group_idx][1],
                     client |-> groups[group_idx][1] + 1,
                     feedback_round |-> previous_feedback_round,
                     shown |-> NoValue]
    /\ n_calls' = n_calls + 1
    /\ pc' = "opinion2"
    /\ UNCHANGED <<doctors, groups, max_rounds, round_num, referees,
                   referee_reset_this_round, group_idx, group_opinions,
                   previous_rounds, exit_message, result, clients_created,
                   round_start, fault_budget, stag_vars, parse_vars>>

\* doc2.think of the current group and the append to group_opinions
Doctor2Think ==
    /\ pc = "opinion2"
    /\ \E resp \in DoctorResponses :
          /\ UnusualDoctorResponse(resp) => unusual < fault_budget
          /\ unusual' = IF UnusualDoctorResponse(resp) THEN unusual + 1 ELSE unusual
          /\ group_opinions' = Append(group_opinions,
                 [group |-> group_idx,
                  doctors |-> groups[group_idx],
                  models |-> <<doctors[groups[group_idx][1] + 1],
                               doctors[groups[group_idx][2] + 1]>>,
                  opinion1 |-> opinion1,
                  opinion2 |-> resp])
          /\ gathered' = [gathered EXCEPT !.opinions =
                             Append(@, <<groups[group_idx][2], resp>>)]
    /\ last_call' = [kind |-> "doctor", round |-> round_num,
                     who |-> groups[group_idx][2],
                     client |-> groups[group_idx][2] + 1,
                     feedback_round |-> previous_feedback_round,
                     shown |-> opinion1]
    /\ n_calls' = n_calls + 1
    /\ IF group_idx < Len(groups)
       THEN /\ group_idx' = group_idx + 1
            /\ pc' = "opinion1"
       ELSE /\ group_idx' = group_idx
            /\ pc' = "referee"
    /\ opinion1' = NoValue
    /\ UNCHANGED <<doctors, groups, max_rounds, round_num, referees,
                   referee_reset_this_round, previous_rounds, exit_message,
                   result, clients_created, round_start, fault_budget, stag_vars, parse_vars>>

\* opinion[:150] of the summary
first_150(opinion) ==
    IF opinion = LongOpinion THEN "long_diagnosis[:150]" ELSE opinion

\* opinion[:800] + ("..." if len(opinion) > 800 else "")
first_800(opinion) ==
    IF opinion = LongOpinion THEN "long_diagnosis[:800]..." ELSE opinion

\* the referee is shown the groups but the last
all_opinions_text_without_last(ops) ==
    [k \in 1..(Len(ops) - 1) |->
        [group |-> ops[k].group, models |-> ops[k].models,
         doctors |-> ops[k].doctors,
         opinion1 |-> first_800(ops[k].opinion1),
         opinion2 |-> first_800(ops[k].opinion2)]]

\* all_opinions_text of the referee question: one part for every entry of
\* group_opinions
all_opinions_text(ops) ==
    [k \in 1..Len(ops) |->
        [group |-> ops[k].group, models |-> ops[k].models,
         doctors |-> ops[k].doctors,
         opinion1 |-> first_800(ops[k].opinion1),
         opinion2 |-> first_800(ops[k].opinion2)]]

\* diagnoses_summary: opinion1 of every group
diagnoses_summary(ops) ==
    [k \in 1..Len(ops) |-> <<ops[k].group, first_150(ops[k].opinion1)>>]

\* the rounds of previous_context_for_referee and whether reset_instruction
\* is sent
referee_context(active, flags) ==
    IF flags[active.name]
    THEN [reset_instruction |-> TRUE, previous_context |-> <<>>]
    ELSE [reset_instruction |-> FALSE,
          previous_context |-> [k \in 1..Len(active.memory) |-> active.memory[k].round]]

\* the loop goes on after a round in which consensus was reached
loop_exit_ignores_consensus(consensus_reached, r, m) ==
    IF r >= m THEN "max_rounds" ELSE NoValue

\* the two breaks that end the loop: which message is printed, NoValue when
\* the loop goes on
loop_exit(consensus_reached, r, m) ==
    IF consensus_reached THEN "consensus"
    ELSE IF r >= m THEN "max_rounds"
    ELSE NoValue

\* every record is marked VALID
round_status_valid(was_reset) == "VALID"

\* "status" of the round record
round_status(was_reset) == IF was_reset THEN "INVALIDATED_RESET" ELSE "VALID"

\* the log holds the record of the latest round only
append_round_record_replacing(log, round_record) == <<round_record>>

\* previous_rounds.append(round_record)
append_round_record(log, round_record) == Append(log, round_record)

\* STAGE 2: active_referee.evaluate, the consensus parse, the append to the
\* active referee's memory and to previous_rounds, and the two breaks
RefereeCheck ==
    /\ pc = "referee"
    /\ \E resp \in RefereeResponses :
          /\ UnusualRefereeResponse(resp) => unusual < fault_budget
          /\ unusual' = IF UnusualRefereeResponse(resp) THEN unusual + 1 ELSE unusual
          /\ LET a == active_referee_index(referees, round_num) + 1
                 active == get_active_referee(referees, round_num)
                 ctx == referee_context(active, referee_reset_this_round)
                 consensus_reached == parse_consensus(resp)
                 summary == diagnoses_summary(group_opinions)
                 was_reset == referee_reset_this_round[active.name]
                 exit == loop_exit(consensus_reached, round_num, max_rounds)
             IN  /\ last_call' = [kind |-> "referee", round |-> round_num,
                                  who |-> active.name,
                                  client |-> active.ai_client,
                                  memory |-> active.memory,
                                  reset_instruction |-> ctx.reset_instruction,
                                  previous_context |-> ctx.previous_context,
                                  opinions |-> all_opinions_text(group_opinions)]
                 /\ referees' = [referees EXCEPT ![a].memory = Append(@,
                        [round |-> round_num,
                         diagnoses_summary |-> summary,
                         referee_feedback |-> resp,
                         consensus |-> consensus_reached,
                         was_reset |-> was_reset])]
                 /\ previous_rounds' = append_round_record(previous_rounds,
                        [round |-> round_num,
                         referee_name |-> active.name,
                         diagnoses_summary |-> summary,
                         referee_feedback |-> resp,
                         consensus |-> consensus_reached,
                         was_reset |-> was_reset,
                         status |-> round_status(was_reset)])
                 /\ exit_message' = exit
                 /\ pc' = IF exit # NoValue THEN "result" ELSE "loop"
    /\ n_calls' = n_calls + 1
    /\ UNCHANGED <<doctors, groups, max_rounds, round_num,
                   referee_reset_this_round, group_idx, opinion1, group_opinions,
                   result, clients_created, round_start, gathered, fault_budget,
                   stag_vars, parse_vars>>

\* the rounds with a reset are counted, not the resets of the last round
count_referee_resets_before_last(refs, rounds) ==
    Cardinality({<<r, k>> \in (1..(rounds - 1)) \X (1..Len(refs)) :
                    should_reset_referee(refs[k], r)})

\* "referee_resets" of the result
count_referee_resets(refs, rounds) ==
    Cardinality({<<r, k>> \in (1..rounds) \X (1..Len(refs)) :
                    should_reset_referee(refs[k], r)})

\* the result dict, and the return
Return ==
    /\ pc = "result"
    /\ result' = [diagnoses |-> group_opinions,
                  rounds |-> round_num,
                  referee_resets |-> count_referee_resets(referees, round_num)]
    /\ pc' = "done"
    /\ UNCHANGED <<doctors, groups, max_rounds, round_num, referees,
                   referee_reset_this_round, group_idx, opinion1, group_opinions,
                   previous_rounds, exit_message, clients_created, round_start,
                   gathered, last_call, n_calls, unusual, fault_budget, stag_vars, parse_vars>>

Next == LoopEmpty \/ RoundStart \/ Doctor1Think \/ Doctor2Think \/ RefereeCheck \/ Return

Spec == Init /\ [][Next]_vars

(***************************************************************************)
(* SpecLong: long sessions of two doctors in which every response has the  *)
(* instructed format                                                       *)
(***************************************************************************)
\* create_doctor_pool: the providers are handed out cyclically
doctor_pool(n) ==
    [i \in 1..n |-> available_providers[((i - 1) % Len(available_providers)) + 1]]

InitLong == InitDebate({doctor_pool(n) : n \in 2..MaxDebateDoctors},
                       0..MaxLongRounds, 0)

SpecLong == InitLong /\ [][Next]_vars

(***************************************************************************)
(* Claims about the debate session                                         *)
(***************************************************************************)
RefereeIndexes == 1..Len(referees)

\* the referee check of the current round has been made
RoundJudged == last_call.kind = "referee" /\ last_call.round = round_num

\* the session has left the loop
LoopExited == pc \in {"result", "done"}

\* referee k was given a new client since the round began
ClientReplaced(k) == referees[k].ai_client # round_start[k].ai_client

EndsAtFirstConsensus ==
    \A k \in 1..Len(previous_rounds) :
        previous_rounds[k].consensus =>
            /\ k = Len(previous_rounds)
            /\ previous_rounds[k].round = round_num
            /\ LoopExited
            /\ exit_message = "consensus"
            /\ RoundJudged
            /\ pc = "done" => result.rounds = previous_rounds[k].round

\* the response holds the object {"consensus_reached": true}
ContainsJsonTrue(resp) == Positions(resp, {"JSON_TRUE"}) # {}

\* {"consensus_reached": true} is the first consensus object of the text the
\* parser searches: the first json code block, or the whole response when
\* there is none
JsonTrueIsRead(resp) ==
    LET txt == json_text(resp)
        hits == Positions(txt, ConsensusObjects)
    IN  hits # {} /\ txt[Min(hits)] = "JSON_TRUE"

EndedAtRoundOne ==
    /\ Len(previous_rounds) = 1
    /\ round_num = 1
    /\ LoopExited
    /\ exit_message = "consensus"

ResultOpinions ==
    [i \in 1..(2 * Len(result.diagnoses)) |->
        LET g == result.diagnoses[(i + 1) \div 2]
        IN  IF i % 2 = 1 THEN <<g.doctors[1], g.opinion1>>
                         ELSE <<g.doctors[2], g.opinion2>>]

\* C3: with max_rounds = M >= 1 and no response yielding consensus, the
\* session runs the rounds 1..M, ends with round count M and the max-rounds
\* message, and returns exactly the opinions gathered in round M.
C3_MaxRoundsTermination ==
    /\ (max_rounds >= 1 /\ pc = "loop" /\
        \A k \in 1..Len(previous_rounds) : ~previous_rounds[k].consensus)
       => round_num < max_rounds
    /\ (max_rounds >= 1 /\ pc = "done" /\
        \A k \in 1..Len(previous_rounds) : ~previous_rounds[k].consensus)
       => /\ Len(previous_rounds) = max_rounds
          /\ \A k \in 1..max_rounds : previous_rounds[k].round = k
          /\ result.rounds = max_rounds
          /\ exit_message = "max_rounds"
          /\ gathered.round = max_rounds
          /\ ResultOpinions = gathered.opinions

C3_Witness ==
    /\ pc = "done"
    /\ max_rounds = 3
    /\ result.rounds = 3
    /\ exit_message = "max_rounds"
    /\ Len(result.diagnoses) = 2

\* C6: in every round the reset check has been made for all referees, and
\* the due resets carried out, before the active referee is consulted; a
\* referee due for reset in the round is consulted with a new client and an
\* empty memory.
C6_ResetBeforeConsult ==
    round_num >= 1 =>
        /\ DOMAIN referee_reset_this_round = {referees[k].name : k \in RefereeIndexes}
        /\ \A k \in RefereeIndexes :
              should_reset_referee(round_start[k], round_num) =>
                  /\ referee_reset_this_round[referees[k].name]
                  /\ ClientReplaced(k)
                  /\ \A e \in 1..Len(referees[k].memory) :
                        referees[k].memory[e].round >= round_num
        /\ RoundJudged =>
              \A k \in RefereeIndexes :
                  (last_call.who = referees[k].name /\
                   should_reset_referee(round_start[k], round_num)) =>
                      /\ last_call.client = referees[k].ai_client
                      /\ last_call.client # round_start[k].ai_client
                      /\ last_call.memory = <<>>
                      /\ last_call.previous_context = <<>>

\* round 7: Referee B is due for reset, holds the rounds 3 and 5 before the
\* reset, and is the referee consulted
C6_Witness ==
    /\ RoundJudged
    /\ round_num = 7
    /\ last_call.who = "Referee B"
    /\ should_reset_referee(round_start[2], round_num)
    /\ Len(round_start[2].memory) = 2

\* C7: in every round in which a referee is reset, once the resets are made
\* one of the referees holds a memory entry of an earlier round.
C7_ContinuityAtReset ==
    (round_num >= 1 /\ \E k \in RefereeIndexes : ClientReplaced(k)) =>
        \E k \in RefereeIndexes : \E e \in 1..Len(referees[k].memory) :
            referees[k].memory[e].round < round_num

\* the positions of the entries of round r in the memory of referee k
EntriesOfRound(k, r) == {e \in 1..Len(referees[k].memory) : referees[k].memory[e].round = r}

\* C8: in round r exactly one memory entry is appended, to referees[r mod 2]
\* (Referee B in odd rounds, Referee A in even rounds), and none to the
\* other referee; so every entry a referee holds is of a round in which it
\* was the active one.
C8_OneEntryForActiveReferee ==
    round_num >= 1 =>
        LET a == (round_num % 2) + 1 IN
        /\ referees[a].name = IF round_num % 2 = 1 THEN "Referee B" ELSE "Referee A"
        /\ Cardinality(EntriesOfRound(a, round_num)) = IF RoundJudged THEN 1 ELSE 0
        /\ \A k \in RefereeIndexes \ {a} : EntriesOfRound(k, round_num) = {}
        /\ \A k \in RefereeIndexes : \A e \in 1..Len(referees[k].memory) :
              /\ referees[k].memory[e].round % 2 = k - 1
              /\ referees[k].memory[e].round <= round_num
        /\ RoundJudged => last_call.who = referees[a].name

\* after round 4: Referee A holds the rounds 2 and 4, Referee B the round 3
C8_Witness ==
    /\ RoundJudged
    /\ round_num = 4
    /\ Len(referees[1].memory) = 2
    /\ Len(referees[2].memory) = 1
    /\ referees[1].memory[2].round = 4

(***************************************************************************)
(* MedicalDiagnosisSystem: _form_circular_groups                           *)
(***************************************************************************)
Specialists == {"A", "B", "C", "D"}

\* the last specialist is not paired with the first
form_circular_groups_open(specialists, grps) ==
    [raised |-> NoValue,
     specialist_groups |->
        grps \o [i \in 1..(Len(specialists) - 1) |->
                    <<specialists[i], specialists[i + 1]>>]]

\* _form_circular_groups on the given selected_specialists and
\* specialist_groups: the exception raised, if any, and specialist_groups
\* afterwards
form_circular_groups(specialists, grps) ==
    IF Len(specialists) < 2
    THEN IF Len(specialists) = 0
         THEN [raised |-> "IndexError", specialist_groups |-> grps]
         ELSE [raised |-> NoValue,
               specialist_groups |-> << <<specialists[1], specialists[1]>> >>]
    ELSE [raised |-> NoValue,
          specialist_groups |->
             grps \o [i \in 1..Len(specialists) |->
                         <<specialists[i],
                           specialists[(i % Len(specialists)) + 1]>>]]

InitForm ==
    /\ pc = "form"
    /\ doctors = <<>>
    /\ groups = <<>>
    /\ DebateIdle
    /\ active_opinions = <<>>
    /\ last_opinions = <<>>
    /\ stagnation_count = 0
    /\ is_stagnant = FALSE
    /\ n_checks = 0
    /\ n_changes = 0
    /\ selected_specialists \in SeqsUpTo(Specialists, 0, MaxSpecialists)
    /\ specialist_groups = <<>>
    /\ self_current_round = 0
    /\ opinions = <<>>
    /\ n_cycles = 0
    /\ handled = NotHandled
    /\ failed_call = NoValue
    /\ rounds_alike = TRUE

FormCircularGroups ==
    /\ pc = "form"
    /\ LET f == form_circular_groups(selected_specialists, specialist_groups)
       IN  /\ specialist_groups' = f.specialist_groups
           /\ pc' = IF f.raised # NoValue THEN f.raised ELSE "form_done"
    /\ UNCHANGED <<doctors, groups, debate_vars, parse_vars, active_opinions, last_opinions,
                   stagnation_count, is_stagnant, n_checks, n_changes,
                   selected_specialists, self_current_round, opinions, n_cycles,
                   handled, failed_call, rounds_alike>>

NextForm == FormCircularGroups

SpecForm == InitForm /\ [][NextForm]_vars

(***************************************************************************)
(* SpecSession: MedicalDiagnosisSystem._conduct_debate on a system whose   *)
(* groups were formed by _form_circular_groups.  active_opinions is empty  *)
(* as __init__ leaves it, or was assigned before the debate.  A call of    *)
(* _call_claude returns a response or raises.                              *)
(***************************************************************************)
self_max_rounds == 100

\* the diagnosis of the opinion _inject_third_perspective appends
third_perspective == <<"t">>

\* the diagnoses parsed from the responses of a cycle
RoundLabels == {<<"a">>, <<"b">>}

\* len(set(op.diagnosis for op in self.active_opinions))
unique_opinions(ops) == Cardinality({ops[i] : i \in 1..Len(ops)})

\* _inject_third_perspective: the call raises, or the opinion is appended
\* and the counter reset
inject_third_perspective(ops, count, round, call_returns) ==
    IF call_returns
    THEN [active_opinions |-> Append(ops, third_perspective),
          stagnation_count |-> 0, current_round |-> round, raised |-> FALSE]
    ELSE [active_opinions |-> ops, stagnation_count |-> count,
          current_round |-> round, raised |-> TRUE]

\* two labels start the injection as three or more do
handle_stagnation_injects_at_two(ops, count, round, call_returns) ==
    IF unique_opinions(ops) >= 2
    THEN inject_third_perspective(ops, count, round, call_returns)
    ELSE [active_opinions |-> ops, stagnation_count |-> count,
          current_round |-> round, raised |-> FALSE]

\* _handle_stagnation
handle_stagnation(ops, count, round, call_returns) ==
    IF unique_opinions(ops) = 2
    THEN [active_opinions |-> ops, stagnation_count |-> count,
          current_round |-> self_max_rounds, raised |-> FALSE]
    ELSE IF unique_opinions(ops) >= 3
    THEN inject_third_perspective(ops, count, round, call_returns)
    ELSE [active_opinions |-> ops, stagnation_count |-> count,
          current_round |-> round, raised |-> FALSE]

\* _should_terminate
should_terminate(round) == round >= self_max_rounds

\* the round counter advances by three
next_round_by_three(round) == round + 3

\* self.current_round += 1
next_round(round) == round + 1

SessionSpecialistLists == SeqsUpTo(Specialists, 1, MaxSessionSpecialists)

PresetOpinionLists == SeqsUpTo(Diagnoses, 1, MaxPresetOpinions)

InitSession ==
    /\ pc = "while"
    /\ doctors = <<>>
    /\ groups = <<>>
    /\ DebateIdle
    /\ \/ /\ selected_specialists \in SessionSpecialistLists
          /\ active_opinions = <<>>
       \/ /\ selected_specialists = <<"A", "B">>
          /\ active_opinions \in PresetOpinionLists
    /\ specialist_groups = form_circular_groups(selected_specialists, <<>>).specialist_groups
    /\ last_opinions = <<>>
    /\ stagnation_count = 0
    /\ is_stagnant = FALSE
    /\ n_checks = 0
    /\ n_changes = 0
    /\ self_current_round = 0
    /\ opinions = <<>>
    /\ n_cycles = 0
    /\ handled = NotHandled
    /\ failed_call = NoValue
    /\ rounds_alike = TRUE

\* the head of the while loop: the loop test, the increment, the stagnation
\* check with _handle_stagnation and _should_terminate, up to the call of
\* _run_debate_cycle
ConductDebateHead ==
    /\ pc = "while"
    /\ IF self_current_round < self_max_rounds
       THEN LET r == next_round(self_current_round)
                c == check_stagnation(active_opinions, last_opinions, stagnation_count)
            IN  /\ last_opinions' = c.last_opinions
                /\ is_stagnant' = c.ret
                /\ n_checks' = n_checks + 1
                /\ IF c.ret
                   THEN \E call_returns \in BOOLEAN :
                          LET h == handle_stagnation(active_opinions,
                                       c.stagnation_count, r, call_returns)
                              next_pc == IF h.raised THEN "Exception"
                                         ELSE IF should_terminate(h.current_round)
                                              THEN "done_forced"
                                              ELSE "gather"
                          IN  /\ active_opinions' = h.active_opinions
                              /\ stagnation_count' = h.stagnation_count
                              /\ self_current_round' = h.current_round
                              /\ failed_call' = IF h.raised THEN "third_perspective"
                                                ELSE failed_call
                              /\ handled' =
                                   [kind |-> "handled", round |-> r,
                                    unique |-> unique_opinions(active_opinions),
                                    appended |-> Len(h.active_opinions)
                                                   - Len(active_opinions),
                                    stagnation_count |-> h.stagnation_count,
                                    current_round |-> h.current_round,
                                    cycles |-> n_cycles,
                                    next_pc |-> next_pc]
                              /\ pc' = next_pc
                              /\ n_cycles' = IF next_pc = "gather"
                                             THEN n_cycles + 1 ELSE n_cycles
                   ELSE /\ stagnation_count' = c.stagnation_count
                        /\ self_current_round' = r
                        /\ pc' = "gather"
                        /\ n_cycles' = n_cycles + 1
                        /\ UNCHANGED <<active_opinions, failed_call, handled>>
                /\ opinions' = <<>>
       ELSE /\ pc' = "done_max_rounds"
            /\ UNCHANGED <<active_opinions, last_opinions, stagnation_count,
                           is_stagnant, n_checks, self_current_round, opinions,
                           n_cycles, handled, failed_call>>
    /\ UNCHANGED <<doctors, groups, debate_vars, parse_vars, n_changes, selected_specialists,
                   specialist_groups, rounds_alike>>

\* the labels of the opinions are exactly a and b
two_labels(ops) == {ops[i].diagnosis : i \in 1..Len(ops)} = RoundLabels

\* _gather_opinions: the call for the next group and the parsed opinion
GatherOpinions ==
    /\ pc = "gather"
    /\ LET idx == Len(opinions) + 1 IN
       \/ /\ failed_call' = "gather_opinions"
          /\ pc' = "Exception"
          /\ UNCHANGED <<opinions, rounds_alike>>
       \/ \E label \in RoundLabels :
            LET ops == Append(opinions, [specialist |-> specialist_groups[idx],
                                         diagnosis |-> label])
            IN  /\ opinions' = ops
                /\ IF idx < Len(specialist_groups)
                   THEN /\ pc' = "gather"
                        /\ rounds_alike' = rounds_alike
                   ELSE /\ pc' = "referee_check"
                        /\ rounds_alike' = (rounds_alike /\ two_labels(ops))
                /\ failed_call' = failed_call
    /\ UNCHANGED <<doctors, groups, debate_vars, parse_vars, active_opinions, last_opinions,
                   stagnation_count, is_stagnant, n_checks, n_changes,
                   selected_specialists, specialist_groups, self_current_round,
                   n_cycles, handled>>

\* _referee_check: one call
StageRefereeCheck ==
    /\ pc = "referee_check"
    /\ \/ pc' = "cross_debate" /\ failed_call' = failed_call
       \/ pc' = "Exception" /\ failed_call' = "referee_check"
    /\ UNCHANGED <<doctors, groups, debate_vars, parse_vars, active_opinions, last_opinions,
                   stagnation_count, is_stagnant, n_checks, n_changes,
                   selected_specialists, specialist_groups, self_current_round,
                   opinions, n_cycles, handled, rounds_alike>>

\* the opinions for which _cross_debate makes a call: those with an opinion
\* of another specialist beside them
cross_debate_calls(ops) ==
    {i \in 1..Len(ops) : \E j \in 1..Len(ops) : ops[j].specialist # ops[i].specialist}

\* _cross_debate: its calls all return, or one of them raises
CrossDebate ==
    /\ pc = "cross_debate"
    /\ \/ pc' = "final_judgment" /\ failed_call' = failed_call
       \/ /\ cross_debate_calls(opinions) # {}
          /\ pc' = "Exception" /\ failed_call' = "cross_debate"
    /\ UNCHANGED <<doctors, groups, debate_vars, parse_vars, active_opinions, last_opinions,
                   stagnation_count, is_stagnant, n_checks, n_changes,
                   selected_specialists, specialist_groups, self_current_round,
                   opinions, n_cycles, handled, rounds_alike>>

\* _final_judgment (consensus is whether the judgment holds the words of
\* agreement; the opinions returned are self.active_opinions), the
\* assignment of active_opinions, and the two breaks of _conduct_debate
FinalJudgment ==
    /\ pc = "final_judgment"
    /\ \/ pc' = "Exception" /\ failed_call' = "final_judgment"
       \/ \E consensus \in BOOLEAN :
            /\ pc' = IF consensus THEN "done_consensus"
                     ELSE IF self_current_round >= self_max_rounds
                          THEN "done_max_rounds"
                          ELSE "while"
            /\ failed_call' = failed_call
    /\ active_opinions' = active_opinions
    /\ UNCHANGED <<doctors, groups, debate_vars, parse_vars, last_opinions,
                   stagnation_count, is_stagnant, n_checks, n_changes,
                   selected_specialists, specialist_groups, self_current_round,
                   opinions, n_cycles, handled, rounds_alike>>

NextSession ==
    ConductDebateHead \/ GatherOpinions \/ StageRefereeCheck \/ CrossDebate
    \/ FinalJudgment

SpecSession == InitSession /\ [][NextSession]_vars

\* the positions inside the while loop: those where a step of NextSession
\* can be taken
InLoop ==
    pc \in {"while", "gather", "referee_check", "cross_debate", "final_judgment"}

\* _conduct_debate runs on one thread, and a step that can be taken is
\* taken: weak fairness of NextSession, written out with InLoop for
\* ENABLED <<NextSession>>_vars
SpecSessionFair ==
    SpecSession /\ ([]<>(~InLoop) \/ []<><<NextSession>>_vars)

(***************************************************************************)
(* Claims about the MedicalDiagnosisSystem session                         *)
(***************************************************************************)
\* C11: when _handle_stagnation runs at stagnation, with 3 or more distinct
\* labels exactly one opinion is appended, the stagnation counter becomes 0
\* and the session goes on to the debate cycle; with exactly 2 distinct
\* labels no opinion is appended, current_round becomes max_rounds and the
\* session ends without another debate cycle.
C11_HandleStagnation ==
    handled.kind = "handled" =>
        /\ handled.unique >= 3 =>
              /\ handled.appended = 1
              /\ handled.stagnation_count = 0
              /\ handled.next_pc = "gather"
        /\ handled.unique = 2 =>
              /\ handled.appended = 0
              /\ handled.current_round = self_max_rounds
              /\ handled.next_pc = "done_forced"
              /\ pc = "done_forced"
              /\ n_cycles = handled.cycles

\* the same for the runs of _handle_stagnation in which the call of
\* _inject_third_perspective returns
HandleStagnationWhenCallReturns ==
    (handled.kind = "handled" /\ handled.next_pc # "Exception") => C11_HandleStagnation

\* C12: a failed call does not abort the session: the coordinator goes on
\* with the next step of the round.
C12_CallFailuresNonFatal ==
    failed_call # NoValue => pc # "Exception"

(***************************************************************************)
(* Further claims about the MultiAIDiagnosisSystem session                 *)
(***************************************************************************)
\* reset_referee constructs one client per execution; the doctors' clients
\* and the two first referee clients were constructed before the session
ResetsPerformed == clients_created - (Len(doctors) + 2)

\* C13: the referee_resets count of the result equals the number of
\* reset_referee executions of the session, both for sessions ended by
\* consensus and for sessions ended at max_rounds.
C13_ResetCountMatches ==
    pc = "done" =>
        /\ result.referee_resets = ResetsPerformed
        /\ exit_message \in {"consensus", "max_rounds"}

\* a session ended by consensus in round 7, after the resets of the rounds
\* 2, 5 and 7
C13_Witness ==
    /\ pc = "done"
    /\ exit_message = "consensus"
    /\ result.rounds = 7
    /\ result.referee_resets = 3
    /\ ResetsPerformed = 3

(***************************************************************************)
(* SpecParse: the consensus parser of _conduct_debate applied to every     *)
(* response of up to MaxResponseLen pieces                                 *)
(***************************************************************************)
ResponseTokens ==
    {"FENCE", "END_FENCE", "JSON_TRUE", "JSON_FALSE", "LOOSE_TRUE",
     "KEYCASE_TRUE", "not reached", "consensus reached", "text"}

ParserInputs == SeqsUpTo(ResponseTokens, 0, MaxResponseLen)

InitParse ==
    /\ pc = "parse"
    /\ doctors = <<>>
    /\ groups = <<>>
    /\ max_rounds = 0
    /\ round_num = 0
    /\ referees = <<>>
    /\ referee_reset_this_round = <<>>
    /\ group_idx = 0
    /\ opinion1 = NoValue
    /\ group_opinions = <<>>
    /\ previous_rounds = <<>>
    /\ exit_message = NoValue
    /\ result = NoValue
    /\ clients_created = 0
    /\ round_start = <<>>
    /\ gathered = [round |-> 0, opinions |-> <<>>]
    /\ last_call = NoCall
    /\ n_calls = 0
    /\ unusual = 0
    /\ fault_budget = 0
    /\ StagIdle
    /\ referee_check \in ParserInputs
    /\ parsed = FALSE

\* the block from "consensus_reached = False" to the end of the try statement
ParseConsensus ==
    /\ pc = "parse"
    /\ parsed' = parse_consensus(referee_check)
    /\ pc' = "parsed"
    /\ UNCHANGED <<doctors, groups, debate_vars, stag_vars, referee_check>>

NextParse == ParseConsensus

SpecParse == InitParse /\ [][NextParse]_vars

\* the response has a code block and {"consensus_reached": true} is in it
BlockContainsJsonTrue(resp) ==
    code_block_match(resp) /\ Positions(json_text(resp), {"JSON_TRUE"}) # {}

\* the response has a code block and {"consensus_reached": true} is the
\* first consensus_reached object in it
BlockReadsJsonTrue(resp) ==
    /\ code_block_match(resp)
    /\ Positions(json_text(resp), ConsensusObjects) # {}
    /\ json_text(resp)[Min(Positions(json_text(resp), ConsensusObjects))] = "JSON_TRUE"

\* no consensus_reached object anywhere in the response
WithoutJson(resp) == Positions(resp, ConsensusObjects) = {}

\* without JSON, negative phrasing makes the parser return false whatever
\* else the response holds, and so does the absence of any phrasing
PhrasesRead ==
    (pc = "parsed" /\ WithoutJson(referee_check)) =>
        /\ Positions(referee_check, {"not reached"}) # {} => ~parsed
        /\ Positions(referee_check, {"not reached", "consensus reached"}) = {}
              => ~parsed

C15_CircularGroups ==
    (pc # "form" /\ Len(selected_specialists) >= 2) =>
        LET N == Len(selected_specialists) IN
        /\ pc = "form_done"
        /\ Len(specialist_groups) = N
        /\ \A i \in 0..(N - 1) :
              specialist_groups[i + 1] =
                 <<selected_specialists[i + 1], selected_specialists[((i + 1) % N) + 1]>>
        /\ specialist_groups[N] = <<selected_specialists[N], selected_specialists[1]>>

\* the list of test_circular_group_formation
C15_Witness ==
    /\ pc = "form_done"
    /\ selected_specialists = <<"A", "B", "C", "D">>
    /\ specialist_groups = << <<"A", "B">>, <<"B", "C">>, <<"C", "D">>, <<"D", "A">> >>

\* C16: with fewer than 2 specialists _form_circular_groups does not raise:
\* an empty list leaves specialist_groups a list, a single specialist
\* yields the one group pairing it with itself.
C16_FewSpecialistsHandled ==
    (pc # "form" /\ Len(selected_specialists) < 2) =>
        /\ pc = "form_done"
        /\ Len(selected_specialists) = 1 =>
              specialist_groups = << <<selected_specialists[1], selected_specialists[1]>> >>

(***************************************************************************)
(* Claims about the referees' resets and memories                          *)
(***************************************************************************)
\* C17: Referee B (initialization_round 2) is reset exactly in the rounds
\* 7, 12, 17, ... (2 + 5n with n >= 1) and in no other round.
C17_RefereeBResetRounds ==
    round_num >= 1 =>
        (referee_reset_this_round["Referee B"]
            <=> (round_num >= 7 /\ (round_num - 2) % 5 = 0))

\* referee k no longer holds the client create_dual_referees gave it
HasBeenReset(k) == referees[k].ai_client # Len(doctors) + k

\* C18: a referee consulted for the first time after a reset (it has been
\* reset and its memory is still empty) receives the reset instruction, also
\* when the reset was made in an earlier round.
C18_ResetInstructionAtFirstConsult ==
    RoundJudged =>
        \A k \in RefereeIndexes :
            (last_call.who = referees[k].name /\ HasBeenReset(k)
             /\ last_call.memory = <<>>)
                => last_call.reset_instruction

\* the rounds of the reset schedule of referee k up to the current round
\* (Referee A: multiples of 5, Referee B: 2 + 5n)
ResetRoundsSoFar(k) ==
    {r \in 1..round_num : IF k = 1 THEN r % 5 = 0 ELSE (r - 2) % 5 = 0}

\* the round from which referee k's memory counts: its latest reset round,
\* round 1 when it was never reset
EpochStart(k) ==
    IF ResetRoundsSoFar(k) = {} THEN 1
    ELSE CHOOSE r \in ResetRoundsSoFar(k) : \A q \in ResetRoundsSoFar(k) : q <= r

\* the rounds whose referee check has been made
JudgedRounds == {r \in 1..round_num : r < round_num \/ RoundJudged}

\* C20: in every state each referee's memory lists strictly increasing
\* rounds and holds exactly the rounds, from its latest reset round on
\* (round 1 if never reset), in which it was the active referee.
C20_MemoryIsEpochRounds ==
    \A k \in RefereeIndexes :
        LET mem == referees[k].memory IN
        /\ \A e \in 1..(Len(mem) - 1) : mem[e].round < mem[e + 1].round
        /\ {mem[e].round : e \in 1..Len(mem)} =
              {r \in JudgedRounds : r >= EpochStart(k) /\ r % 2 = k - 1}

\* after round 11 Referee B, reset in round 7, holds the rounds 7, 9 and 11
C20_Witness ==
    /\ RoundJudged
    /\ round_num = 11
    /\ Len(referees[2].memory) = 3
    /\ referees[2].memory[1].round = 7
    /\ referees[2].memory[3].round = 11

(***************************************************************************)
(* Stagnation in the MedicalDiagnosisSystem session                        *)
(***************************************************************************)
\* C19: a session in which no final judgment is a consensus and every
\* debate cycle gathers the same two distinct labels ends by forced
\* termination at the repeat threshold, before 100 debate cycles have run.
C19_StagnationEndsSession ==
    (pc \in {"done_max_rounds", "done_forced"} /\ rounds_alike) =>
        /\ pc = "done_forced"
        /\ n_cycles < self_max_rounds

(***************************************************************************)
(* Frame of reset_referee                                                  *)
(***************************************************************************)
\* C21: reset_referee gives the referee a freshly constructed client of the
\* same provider and an empty memory, and changes nothing else: not the
\* referee's name, provider and initialization_round, not the other
\* referee, not the session log, not the doctors.
C21_ResetFrame ==
    [][\A k \in 1..Len(referees) :
          (round_num' # round_num /\ referee_reset_this_round'[referees[k].name]) =>
              /\ referees'[k].name = referees[k].name
              /\ referees'[k].ai_provider = referees[k].ai_provider
              /\ referees'[k].initialization_round = referees[k].initialization_round
              /\ referees'[k].memory = <<>>
              /\ referees'[k].ai_client > clients_created
              /\ referees'[k].ai_client <= clients_created'
              /\ \A j \in 1..Len(referees) : j # k => referees'[j] = referees[j]
              /\ previous_rounds' = previous_rounds
              /\ doctors' = doctors
              /\ groups' = groups]_vars

\* round 5: Referee A, holding the rounds 2 and 4, is reset while Referee B
\* keeps its round 3
C21_Witness ==
    /\ pc = "opinion1"
    /\ round_num = 5
    /\ referee_reset_this_round["Referee A"]
    /\ Len(round_start[1].memory) = 2
    /\ referees[1].memory = <<>>
    /\ Len(referees[2].memory) = 1
    /\ Len(previous_rounds) = 4

(***************************************************************************)
(* The partner choice of create_circular_groups                            *)
(***************************************************************************)
\* doctor c has another provider than doctor i (0-based indices)
OtherBackend(i, c) == doctors[c + 1] # doctors[i + 1]

\* p is the partner of doctor i: the doctor at the smallest offset with
\* another provider, or the next doctor when no doctor has another provider
PartnerIs(i, p) ==
    LET N == Len(doctors) IN
    \/ \E j \in 1..(N - 1) :
          /\ p = (i + j) % N
          /\ OtherBackend(i, p)
          /\ \A q \in 1..(j - 1) : ~OtherBackend(i, (i + q) % N)
    \/ /\ \A c \in 0..(N - 1) : ~OtherBackend(i, c)
       /\ p = (i + 1) % N

PartnerOf(i) == CHOOSE p \in 0..(Len(doctors) - 1) : PartnerIs(i, p)

\* the sorted index pair of doctor i and its partner
PairOf(i) == IF i <= PartnerOf(i) THEN <<i, PartnerOf(i)>> ELSE <<PartnerOf(i), i>>

\* C22: doctor i's partner is the doctor at (i+j) mod N for the smallest
\* offset j whose provider differs, (i+1) mod N only when no doctor's
\* provider differs; the pair is emitted iff its sorted index pair was not
\* emitted before; so a group of two doctors of one provider occurs only
\* when all doctors share that provider.
C22_PartnerChoice ==
    (pc = "groups_done" /\ Len(doctors) >= 2) =>
        LET N == Len(doctors) IN
        /\ \A i \in 0..(N - 1) : \E p \in 0..(N - 1) : PartnerIs(i, p)
        /\ \A k \in 1..Len(groups) : groups[k] = <<groups[k][1], PartnerOf(groups[k][1])>>
        /\ \A k \in 1..(Len(groups) - 1) : groups[k][1] < groups[k + 1][1]
        /\ \A i \in 0..(N - 1) :
              (\E k \in 1..Len(groups) : groups[k][1] = i)
                 <=> ~(\E k \in 1..Len(groups) :
                          groups[k][1] < i /\ PairOf(groups[k][1]) = PairOf(i))
        /\ \A k \in 1..Len(groups) :
              doctors[groups[k][1] + 1] = doctors[groups[k][2] + 1]
                 => \A c \in 1..N : doctors[c] = doctors[1]

\* the partner of doctor 0 is two places on, that of doctor 3 three places
\* on, and the pair of doctor 3 was emitted before
C22_Witness ==
    /\ pc = "groups_done"
    /\ doctors = <<"claude", "claude", "gpt", "claude">>
    /\ groups = << <<0, 2>>, <<1, 2>>, <<2, 3>> >>

(***************************************************************************)
(* Pairs and opinions per participant                                      *)
(***************************************************************************)
\* the two specialists of a group, without their order
UnorderedPair(g) == {g[1], g[2]}

\* C23: for N >= 2 selected specialists the groups of _form_circular_groups
\* hold no unordered pair of specialists more than once.
C23_NoRepeatedSpecialistPair ==
    (pc = "form_done" /\ Len(selected_specialists) >= 2) =>
        \A k1, k2 \in 1..Len(specialist_groups) :
            k1 # k2 => UnorderedPair(specialist_groups[k1])
                       # UnorderedPair(specialist_groups[k2])

\* the positions of doctor i's responses among those gathered in the round
OpinionsOf(i) == {e \in 1..Len(gathered.opinions) : gathered.opinions[e][1] = i}

\* C24: in each round every doctor produces exactly one opinion, whatever
\* group list create_circular_groups returned.
C24_OneOpinionPerDoctor ==
    (round_num >= 1 /\ pc \in {"referee", "loop", "result", "done"}) =>
        \A i \in 0..(Len(doctors) - 1) : Cardinality(OpinionsOf(i)) = 1

(***************************************************************************)
(* The consensus_reached object and the phrasing around it                 *)
(***************************************************************************)
\* the boolean value the consensus_reached field of an object carries
FieldValue(tok) == tok \in {"JSON_TRUE", "LOOSE_TRUE", "KEYCASE_TRUE"}

\* C25: when the response holds a JSON object with a consensus_reached
\* boolean field, key and value matched in any case, the parsed flag is the
\* value of that field, whatever phrasing the response holds elsewhere
\* (stated for responses whose objects all carry one value).
C25_JsonFieldAuthoritative ==
    pc = "parsed" =>
        \A v \in BOOLEAN :
            (/\ Positions(referee_check, ConsensusObjects) # {}
             /\ \A i \in Positions(referee_check, ConsensusObjects) :
                   FieldValue(referee_check[i]) = v)
                => parsed = v

(***************************************************************************)
(* The order of the requests of a round                                    *)
(***************************************************************************)
\* the latest call is the second doctor's of a group of the current round
SecondDoctorAsked ==
    /\ last_call.kind = "doctor"
    /\ last_call.round = gathered.round
    /\ Len(gathered.opinions) > 0
    /\ Len(gathered.opinions) % 2 = 0

\* the latest call is the referee check of the round whose opinions are held
RefereeAsked ==
    /\ last_call.kind = "referee"
    /\ last_call.round = gathered.round

\* the second doctor is asked after the first has answered and is shown that
\* answer in full
SecondDoctorSeesFirst ==
    /\ pc = "opinion2" =>
          /\ Len(gathered.opinions) = 2 * group_idx - 1
          /\ gathered.opinions[2 * group_idx - 1] =
                <<groups[group_idx][1], opinion1>>
          /\ opinion1 \in DoctorResponses
    /\ SecondDoctorAsked =>
          LET n == Len(gathered.opinions)
              g == n \div 2
          IN  /\ last_call.who = groups[g][2]
              /\ gathered.opinions[n - 1][1] = groups[g][1]
              /\ last_call.shown = gathered.opinions[n - 1][2]

\* the referee is asked once both doctors of every group have answered
RefereeAskedLast ==
    /\ pc = "referee" =>
          /\ Len(gathered.opinions) = 2 * Len(groups)
          /\ Len(group_opinions) = Len(groups)
    /\ RefereeAsked =>
          /\ Len(gathered.opinions) = 2 * Len(groups)
          /\ Len(last_call.opinions) = Len(groups)

\* C26 as stated: in every round the second doctor of a group is asked
\* after the first has answered and its request contains that answer, and
\* the referee is asked after both opinions of every group are collected
\* and its request includes the opinions of all groups of the round.
C26_RequestsInOrder ==
    /\ SecondDoctorSeesFirst
    /\ RefereeAskedLast
    /\ RefereeAsked =>
          \A g \in 1..Len(groups) :
              /\ last_call.opinions[g].doctors = groups[g]
              /\ last_call.opinions[g].opinion1 = gathered.opinions[2 * g - 1][2]
              /\ last_call.opinions[g].opinion2 = gathered.opinions[2 * g][2]

\* C26 amended: the same order, the second doctor's request contains the
\* first doctor's answer in full, and the referee's request has a part for
\* every group of the round holding the first 800 characters of each of its
\* two opinions, followed by "..." when the opinion is longer.
C26_RequestsInOrderExcerpts ==
    /\ SecondDoctorSeesFirst
    /\ RefereeAskedLast
    /\ RefereeAsked =>
          \A g \in 1..Len(groups) :
              /\ last_call.opinions[g].doctors = groups[g]
              /\ last_call.opinions[g].opinion1 =
                    first_800(gathered.opinions[2 * g - 1][2])
              /\ last_call.opinions[g].opinion2 =
                    first_800(gathered.opinions[2 * g][2])

\* a referee asked about three groups, one of whose opinions it sees cut
C26_Witness ==
    /\ RefereeAsked
    /\ Len(groups) = 3
    /\ \E g \in 1..Len(groups) :
          /\ gathered.opinions[2 * g][2] = LongOpinion
          /\ last_call.opinions[g].opinion2 = first_800(LongOpinion)
    /\ \E n \in 1..Len(previous_rounds) :
          previous_rounds[n].round = last_call.round

(***************************************************************************)
(* The session log previous_rounds                                         *)
(***************************************************************************)
\* the rounds whose referee check is done
RoundsDone == IF pc \in {"opinion1", "opinion2", "referee"}
              THEN round_num - 1 ELSE round_num

\* one record for each of the rounds done, in the order of the rounds
OneRecordPerRound ==
    /\ Len(previous_rounds) = RoundsDone
    /\ \A n \in 1..Len(previous_rounds) : previous_rounds[n].round = n

\* no step changes or removes a record of the log
LogOnlyGrows ==
    /\ Len(previous_rounds') >= Len(previous_rounds)
    /\ \A n \in 1..Len(previous_rounds) : previous_rounds'[n] = previous_rounds[n]

\* C27: after k rounds the session log holds exactly one record for each
\* round 1..k, in increasing order, and no later round, nor a referee
\* reset, changes or removes a record already in the log.
C27_LogAppendOnly == []OneRecordPerRound /\ [][LogOnlyGrows]_vars

\* seven rounds logged, both referees reset since the first record
C27_Witness ==
    /\ Len(previous_rounds) = 7
    /\ ResetsPerformed >= 3
    /\ pc = "done"

(***************************************************************************)
(* The reset mark of the round records and of the memory entries           *)
(***************************************************************************)
\* the record of round r carries the reset mark
MarkedReset(r) ==
    /\ previous_rounds[r].was_reset
    /\ previous_rounds[r].status = "INVALIDATED_RESET"

\* the record of round r carries no reset mark
MarkedValid(r) ==
    /\ ~previous_rounds[r].was_reset
    /\ previous_rounds[r].status = "VALID"

\* C28: the record of round r has its reset flag set, and the status
\* INVALIDATED_RESET instead of VALID, exactly when the active referee of
\* round r was itself reset in round r, which is exactly when r mod 10 is 0
\* or 7; and in a referee's memory only the first entry can carry
\* was_reset = true.
C28_ResetMarks ==
    /\ \A r \in 1..Len(previous_rounds) :
          /\ previous_rounds[r].round = r
          /\ MarkedReset(r) \/ MarkedValid(r)
          /\ MarkedReset(r) <=> r % 10 \in {0, 7}
          /\ MarkedReset(r) <=>
                should_reset_referee(get_active_referee(referees, r), r)
    /\ RoundJudged =>
          (MarkedReset(round_num) <=>
              ClientReplaced(active_referee_index(referees, round_num) + 1))
    /\ \A k \in RefereeIndexes :
          \A e \in 2..Len(referees[k].memory) : ~referees[k].memory[e].was_reset

\* round 10 judged: the records of 7 and 10 are marked, and Referee B's
\* memory holds the marked round 7 followed by round 9
C28_Witness ==
    /\ RoundJudged
    /\ round_num = 10
    /\ MarkedReset(7) /\ MarkedReset(10) /\ MarkedValid(2) /\ MarkedValid(5)
    /\ Len(referees[2].memory) = 2
    /\ referees[2].memory[1].was_reset

(***************************************************************************)
(* The size of a referee's memory                                          *)
(***************************************************************************)
\* C29: in every state of a session each referee's memory holds at most 3
\* entries (a referee judges every second round and is reset every fifth).
C29_MemoryAtMostThree ==
    \A k \in RefereeIndexes : Len(referees[k].memory) <= 3

\* after round 14 Referee A, reset in round 10, holds three entries, as
\* Referee B did after round 11
C29_Witness ==
    /\ RoundJudged
    /\ round_num = 14
    /\ Len(referees[1].memory) = 3
    /\ referees[1].memory[1].round = 10
    /\ Len(referees[2].memory) = 1

(***************************************************************************)
(* Termination of MedicalDiagnosisSystem._conduct_debate                   *)
(***************************************************************************)
\* the loop has been left: by consensus, at max rounds, or forced
SessionExited == pc \in {"done_consensus", "done_max_rounds", "done_forced"}

\* no agent call has raised
EveryCallReturned == failed_call = NoValue /\ pc # "Exception"

RoundsWithinMax ==
    /\ self_current_round <= self_max_rounds
    /\ n_cycles <= self_max_rounds
    /\ n_cycles <= self_current_round

\* after the exit no debate cycle and no stagnation check is made
NothingAfterExit ==
    SessionExited =>
        /\ pc' = pc
        /\ n_cycles' = n_cycles
        /\ n_checks' = n_checks
        /\ self_current_round' = self_current_round

\* C30: _conduct_debate terminates provided every agent call returns;
\* current_round never exceeds max_rounds, at most max_rounds debate cycles
\* are run, and after the loop is left (consensus, max rounds or forced
\* termination) no debate cycle and no stagnation check is executed.
C30_ConductDebateTerminates ==
    /\ []RoundsWithinMax
    /\ [][NothingAfterExit]_vars
    /\ ([]EveryCallReturned) => <>SessionExited

\* a session left at max rounds after max_rounds debate cycles
C30_Witness ==
    /\ pc = "done_max_rounds"
    /\ EveryCallReturned
    /\ n_cycles = self_max_rounds
    /\ self_current_round = self_max_rounds

====
